---- MODULE Spec2Model ----
(***************************************************************************)
(* Model of the rust-concurrency crate:                                    *)
(*   src/src/matrix.rs                 dot_product, multiply and the       *)
(*                                     worker-pool multiply_concurrency    *)
(*   src/src/metrics/mutex_metrics.rs  Metrics (Arc<Mutex<HashMap>>)       *)
(* Vec<T> is a sequence; the code's 0-based index p is p + 1 here.  The    *)
(* element type T is instantiated with the integers; the values stay far   *)
(* from the bounds of any machine integer.                                 *)
(***************************************************************************)
EXTENDS Integers, Sequences, FiniteSets, TLC

(* ----------------------------- bounds ---------------------------------- *)

\* the output matrix has at most MaxCells cells (a.row * b.col)
MaxCells == 5

\* a.col and b.row range over 0 .. MaxInner
MaxInner == 2

\* the Metrics value is shared by MaxClients threads, each holding a clone
MaxClients == 3

\* every thread sharing the Metrics value performs at most MaxOps calls
MaxOps == 2

\* messages sent by the producers of examples/thread1.rs, all together
MaxMsgs == 4

(* ------------------------ program constants ---------------------------- *)

NUM_THREADS == 4

\* The pool sizes the program is built with: NUM_THREADS as committed, and
\* the smaller pools 1 and 2.
WorkerCounts == {1, 2, NUM_THREADS}

\* examples/thread1.rs: const NUM_PRODUCES: usize = 4
NUM_PRODUCES == 4

(* --------------------------- Vec helpers ------------------------------- *)

\* v[lo..hi] of a Vec (0-based, hi exclusive); the caller checks the range
Slice(v, lo, hi) == [t \in 1..(hi - lo) |-> v[lo + t]]

\* v[from..].iter().step_by(step).cloned().collect()
StepBy(v, from, step) ==
    LET cnt == IF Len(v) > from THEN (Len(v) - from + step - 1) \div step ELSE 0
    IN  [t \in 1..cnt |-> v[from + (t - 1) * step + 1]]

\* vec![T::default(); n]
Zeros(n) == [t \in 1..n |-> 0]

Matrix_new(data, row, col) == [data |-> data, row |-> row, col |-> col]

(* --------------------------- dot_product ------------------------------- *)

OkVal(v) == [ok |-> TRUE, val |-> v]
ErrVal == [ok |-> FALSE, val |-> 0]

\* mutant of DotLoop: the loop stops one element early
RECURSIVE DotLoop_StopEarly(_, _, _, _)
DotLoop_StopEarly(x, y, i, sum) ==
    IF i + 1 >= Len(x) THEN sum
    ELSE DotLoop_StopEarly(x, y, i + 1, sum + x[i + 1] * y[i + 1])

RECURSIVE DotLoop(_, _, _, _)
DotLoop(x, y, i, sum) ==
    IF i >= Len(x) THEN sum
    ELSE DotLoop(x, y, i + 1, sum + x[i + 1] * y[i + 1])

dot_product(x, y) ==
    IF Len(x) # Len(y) THEN ErrVal ELSE OkVal(DotLoop(x, y, 0, 0))

(* ------------------- slices taken for cell (i, j) ---------------------- *)

\* a.data[i * a.col..(i + 1) * a.col] panics when the range leaves the Vec
RowInRange(ma, i) == (i + 1) * ma.col <= Len(ma.data)
RowOf(ma, i) == Slice(ma.data, i * ma.col, (i + 1) * ma.col)

\* b.data[j..] panics when j is past the end of the Vec
ColInRange(mb, j) == j <= Len(mb.data)
ColOf(mb, j) == StepBy(mb.data, j, mb.col)

FlatIdx(mb, i, j) == i * mb.col + j

\* mutant of DimensionsAgree: the check compares the wrong pair of fields
DimensionsAgree_Swapped(ma, mb) == ma.row = mb.col

\* the negation of the guard `a.col != b.row` of both multiplies
DimensionsAgree(ma, mb) == ma.col = mb.row

\* mutant of DataLength: the buffer is sized after a alone
DataLength_OfA(ma, mb) == ma.row * ma.col

\* let data_length = a.row * b.col
DataLength(ma, mb) == ma.row * mb.col

\* mutant of TaskIdx: the stride is the row count of b
TaskIdx_RowStride(mb, i, j) == i * mb.row + j

\* let idx = i * b.col + j
TaskIdx(mb, i, j) == i * mb.col + j

\* mutant of TaskCol: the column is taken as a contiguous run of b.data
TaskCol_Contiguous(mb, j) ==
    LET hi == IF (j + 1) * mb.row <= Len(mb.data) THEN (j + 1) * mb.row ELSE Len(mb.data)
        lo == IF j * mb.row <= hi THEN j * mb.row ELSE hi
    IN  Slice(mb.data, lo, hi)

\* the row and the column copied into the task of cell (i, j)
TaskRow(ma, i) == Slice(ma.data, i * ma.col, (i + 1) * ma.col)
TaskCol(mb, j) == StepBy(mb.data, j, mb.col)

(* ------------------------ sequential multiply -------------------------- *)

Outcome(status, data, row, col) ==
    [status |-> status, data |-> data, row |-> row, col |-> col]

NoOutcome == Outcome("none", <<>>, 0, 0)

RECURSIVE MultiplyLoop(_, _, _, _, _)
MultiplyLoop(ma, mb, i, j, data) ==
    IF i >= ma.row \/ mb.col = 0
    THEN Outcome("Ok", data, ma.row, mb.col)
    ELSE IF ~RowInRange(ma, i) \/ ~ColInRange(mb, j)
    THEN Outcome("Panic", <<>>, 0, 0)
    ELSE LET r == dot_product(RowOf(ma, i), ColOf(mb, j))
         IN  IF ~r.ok
             THEN Outcome("ErrDot", <<>>, 0, 0)
             ELSE LET d == [data EXCEPT ![FlatIdx(mb, i, j) + 1] = r.val]
                  IN  IF j + 1 < mb.col
                      THEN MultiplyLoop(ma, mb, i, j + 1, d)
                      ELSE MultiplyLoop(ma, mb, i + 1, 0, d)

multiply(ma, mb) ==
    IF ~DimensionsAgree(ma, mb)
    THEN Outcome("ErrDim", <<>>, 0, 0)
    ELSE MultiplyLoop(ma, mb, 0, 0, Zeros(ma.row * mb.col))

(* ------------------------------ inputs --------------------------------- *)

FillKinds == {"iota", "eye"}

\* Matrix::new does not compare data.len() with row * col
Slacks == {-1, 0, 1}

\* "iota" is [1, 2, 3, ..] as in the tests; "eye" has 1 on the diagonal
Fill(kind, len, col) ==
    [t \in 1..len |->
        IF kind = "iota" THEN t
        ELSE IF col > 0 /\ (t - 1) \div col = (t - 1) % col THEN 1 ELSE 0]

Matrices(kinds, rows, cols) ==
    { Matrix_new(Fill(kind, r * c + s, c), r, c) :
        <<kind, r, c, s>> \in
          { q \in kinds \X rows \X cols \X Slacks : q[2] * q[3] + q[4] >= 0 } }

\* the pairs (a, b) the calls are made with
Inputs(kinds) ==
    { p \in Matrices(kinds, 0..MaxCells, 0..MaxInner)
             \X Matrices(kinds, 0..MaxInner, 0..MaxCells) :
        p[1].row * p[2].col <= MaxCells }

(* ------------------------------ state ---------------------------------- *)

VARIABLES
    a, b,           \* the two input matrices of the calls
    nthreads,       \* the pool size the program was built with
    pc,             \* position of the calling thread
    seqres,         \* what multiply(&a, &b) produced
    outcome,        \* what multiply_concurrency(&a, &b) produced
    nspawned,       \* workers spawned so far (senders.len())
    sendersAlive,   \* the Vec `senders` has not been dropped
    wstate,         \* per worker: "none", "running", "terminated", "failed"
    queue,          \* per worker: the messages in its mpsc channel
    inprogress,     \* the (worker, msg) pairs inside the body of a worker's loop
    allocated,      \* `receivers` and `data` have been created
    data,           \* the output buffer
    receivers,      \* the Vec of oneshot receivers, as channel ids
    chan,           \* the oneshot channels, by id (creation order)
    i, j,           \* the dispatch loop counters
    next,           \* how many receivers the collecting loop has consumed
    sentTo,         \* history: per worker, the idx of every task its queue accepted
    started         \* history: per worker, the idx of every task it took, in order

matrixVars == <<a, b, nthreads, pc, seqres, outcome, nspawned, sendersAlive, wstate,
                queue, inprogress, allocated, data, receivers, chan, i, j, next,
                sentTo, started>>

VARIABLES
    mdata,          \* the HashMap<String, i64> behind the Arc<Mutex<..>>
    mlock,          \* the thread holding the mutex, 0 when it is free
    mpc,            \* per thread: "idle", "locked", "entry", "cloned"
    mop,            \* per thread: the call it is in, [op, key]
    mreg,           \* per thread: the counter value read for `*counter += 1`
    snap,           \* per thread: the HashMap its last snapshot returned
    mcalls,         \* per thread: the calls it has started
    incDone,        \* history: per key, the inc calls that have returned
    descDone        \* history: per key, the desc calls that have returned

metricsVars == <<mdata, mlock, mpc, mop, mreg, snap, mcalls, incDone, descDone>>

VARIABLES
    mainpc,         \* position of main: "spawn", "consumer", "join", "done"
    tx,             \* main's original Sender has not been dropped
    rx,             \* the messages in the mpsc channel, oldest first
    nproducers,     \* producer threads spawned so far
    producer,       \* per producer: "none", "running", "left"
    consumer,       \* the consumer thread: "none", "running", "left"
    sent,           \* history: per producer, the values it sent, in order
    received        \* history: per producer, the values the consumer printed, in order

threadVars == <<mainpc, tx, rx, nproducers, producer, consumer, sent, received>>

vars == <<matrixVars, metricsVars, threadVars>>

\* the workers of the pool; the per-worker variables have a slot for each
\* worker of the largest pool
Workers == 0..(nthreads - 1)
WorkerSlots == 0..(NUM_THREADS - 1)

MsgInput_new(idx, row, col) == [idx |-> idx, row |-> row, col |-> col]

Msg(input, sender) == [input |-> input, sender |-> sender]

MsgOutput(idx, d) == [idx |-> idx, data |-> d]

\* a oneshot channel; history fields: writes, writers and reads count the calls
\* of send and recv, queuedAt is the worker whose queue accepted the task (else
\* -1), task is the MsgInput the channel was created for
NewChannel(w, input) ==
    [state |-> "open", msg |-> MsgOutput(0, 0), writes |-> 0, writers |-> {}, reads |-> 0,
     queuedAt |-> w, task |-> input]

\* the oneshot sender of channel c goes away without a message having been sent
DropSender(ch, c) ==
    IF ch[c + 1].state = "open" THEN [ch EXCEPT ![c + 1].state = "dropped"] ELSE ch

RECURSIVE DropSenders(_, _)
DropSenders(ch, msgs) ==
    IF msgs = <<>> THEN ch
    ELSE DropSenders(DropSender(ch, Head(msgs).sender), Tail(msgs))

\* `receivers` (or what is left of its iterator) is dropped when the call ends
ReceiverDropped(c) == pc = "done"

Idle(w) == \A t \in inprogress : t.w # w

MatrixInit(kinds) ==
    /\ \E p \in Inputs(kinds) : a = p[1] /\ b = p[2]
    /\ nthreads \in WorkerCounts
    /\ pc = "multiply"
    /\ seqres = NoOutcome
    /\ outcome = NoOutcome
    /\ nspawned = 0
    /\ sendersAlive = FALSE
    /\ wstate = [w \in WorkerSlots |-> "none"]
    /\ queue = [w \in WorkerSlots |-> <<>>]
    /\ inprogress = {}
    /\ allocated = FALSE
    /\ data = <<>>
    /\ receivers = <<>>
    /\ chan = <<>>
    /\ i = 0
    /\ j = 0
    /\ next = 0
    /\ sentTo = [w \in WorkerSlots |-> <<>>]
    /\ started = [w \in WorkerSlots |-> <<>>]

(* -------------------------- calling thread ----------------------------- *)

\* the caller runs the sequential multiply on the inputs
CallMultiply ==
    /\ pc = "multiply"
    /\ seqres' = multiply(a, b)
    /\ pc' = "check"
    /\ UNCHANGED <<metricsVars, threadVars, a, b, nthreads, outcome, nspawned, sendersAlive, wstate, queue,
                   inprogress, allocated, data, receivers, chan, i, j, next,
                   sentTo, started>>

\* multiply_concurrency: if a.col != b.row { return Err(..) }
CheckDimensions ==
    /\ pc = "check"
    /\ IF DimensionsAgree(a, b)
       THEN /\ pc' = "spawn"
            /\ sendersAlive' = TRUE
            /\ outcome' = outcome
       ELSE /\ pc' = "done"
            /\ outcome' = Outcome("ErrDim", <<>>, 0, 0)
            /\ sendersAlive' = sendersAlive
    /\ UNCHANGED <<metricsVars, threadVars, a, b, nthreads, seqres, nspawned, wstate, queue, inprogress,
                   allocated, data, receivers, chan, i, j, next, sentTo, started>>

\* one iteration of (0..NUM_THREADS).map(..): a queue and its thread
SpawnWorker ==
    /\ pc = "spawn"
    /\ nspawned < nthreads
    /\ wstate' = [wstate EXCEPT ![nspawned] = "running"]
    /\ nspawned' = nspawned + 1
    /\ UNCHANGED <<metricsVars, threadVars, a, b, nthreads, pc, seqres, outcome, sendersAlive, queue,
                   inprogress, allocated, data, receivers, chan, i, j, next,
                   sentTo, started>>

\* data_length, receivers and the zero-filled data
Allocate ==
    /\ pc = "spawn"
    /\ nspawned = nthreads
    /\ allocated' = TRUE
    /\ data' = Zeros(DataLength(a, b))
    /\ receivers' = <<>>
    /\ i' = 0
    /\ j' = 0
    /\ pc' = "dispatch"
    /\ UNCHANGED <<metricsVars, threadVars, a, b, nthreads, seqres, outcome, nspawned, sendersAlive, wstate,
                   queue, inprogress, chan, next, sentTo, started>>

\* mutant of WorkerFor: the task goes to the worker after the intended one
WorkerFor_Shifted(idx) == (idx + 1) % nthreads

\* senders[idx % NUM_THREADS]
WorkerFor(idx) == idx % nthreads

\* mutant of Dispatch: the reply receiver is kept only when the send succeeded
Dispatch_PushOnSuccess ==
    /\ pc = "dispatch"
    /\ i < a.row /\ j < b.col
    /\ RowInRange(a, i) /\ ColInRange(b, j)
    /\ LET idx == TaskIdx(b, i, j)
           c   == Len(chan)
           msg == Msg(MsgInput_new(idx, TaskRow(a, i), TaskCol(b, j)), c)
           w   == WorkerFor(idx)
       IN  IF wstate[w] = "running"
           THEN /\ queue' = [queue EXCEPT ![w] = Append(@, msg)]
                /\ sentTo' = [sentTo EXCEPT ![w] = Append(@, idx)]
                /\ chan' = Append(chan, NewChannel(w, msg.input))
                /\ receivers' = Append(receivers, c)
           ELSE /\ chan' = DropSender(Append(chan, NewChannel(-1, msg.input)), c)
                /\ UNCHANGED <<queue, sentTo, receivers>>
    /\ IF j + 1 < b.col
       THEN j' = j + 1 /\ i' = i
       ELSE j' = 0 /\ i' = i + 1
    /\ UNCHANGED <<metricsVars, threadVars, a, b, nthreads, pc, seqres, outcome, nspawned, sendersAlive,
                   wstate, inprogress, allocated, data, next, started>>

\* the body of the two dispatch loops for cell (i, j)
Dispatch ==
    /\ pc = "dispatch"
    /\ i < a.row /\ j < b.col
    /\ RowInRange(a, i) /\ ColInRange(b, j)
    /\ LET idx == TaskIdx(b, i, j)
           c   == Len(chan)
           msg == Msg(MsgInput_new(idx, TaskRow(a, i), TaskCol(b, j)), c)
           w   == WorkerFor(idx)
       IN  /\ IF wstate[w] = "running"
              THEN /\ queue' = [queue EXCEPT ![w] = Append(@, msg)]
                   /\ sentTo' = [sentTo EXCEPT ![w] = Append(@, idx)]
                   /\ chan' = Append(chan, NewChannel(w, msg.input))
              ELSE \* send fails: the message comes back in the error and is dropped
                   /\ chan' = DropSender(Append(chan, NewChannel(-1, msg.input)), c)
                   /\ UNCHANGED <<queue, sentTo>>
           /\ receivers' = Append(receivers, c)
    /\ IF j + 1 < b.col
       THEN j' = j + 1 /\ i' = i
       ELSE j' = 0 /\ i' = i + 1
    /\ UNCHANGED <<metricsVars, threadVars, a, b, nthreads, pc, seqres, outcome, nspawned, sendersAlive,
                   wstate, inprogress, allocated, data, next, started>>

\* a slice of the dispatch loop is out of range: the calling thread unwinds
DispatchPanic ==
    /\ pc = "dispatch"
    /\ i < a.row /\ j < b.col
    /\ ~(RowInRange(a, i) /\ ColInRange(b, j))
    /\ pc' = "done"
    /\ outcome' = Outcome("Panic", <<>>, 0, 0)
    /\ sendersAlive' = FALSE
    /\ UNCHANGED <<metricsVars, threadVars, a, b, nthreads, seqres, nspawned, wstate, queue, inprogress,
                   allocated, data, receivers, chan, i, j, next, sentTo, started>>

\* both dispatch loops have run out
DispatchDone ==
    /\ pc = "dispatch"
    /\ (i >= a.row \/ b.col = 0)
    /\ pc' = "collect"
    /\ next' = 0
    /\ UNCHANGED <<metricsVars, threadVars, a, b, nthreads, seqres, outcome, nspawned, sendersAlive, wstate,
                   queue, inprogress, allocated, data, receivers, chan, i, j,
                   sentTo, started>>

\* mutant of Collect: the collector takes whichever pending reply is ready
Collect_AnyReady ==
    /\ pc = "collect"
    /\ \E k \in next..(Len(receivers) - 1) :
         LET c == receivers[k + 1]
         IN  /\ chan[c + 1].state = "sent"
             /\ chan[c + 1].msg.idx < Len(data)
             /\ chan' = [chan EXCEPT ![c + 1].state = "taken", ![c + 1].reads = @ + 1]
             /\ data' = [data EXCEPT ![chan[c + 1].msg.idx + 1] = chan[c + 1].msg.data]
             /\ next' = next + 1
    /\ UNCHANGED <<metricsVars, threadVars, a, b, nthreads, pc, outcome, sendersAlive, seqres, nspawned, wstate,
                   queue, inprogress, allocated, receivers, i, j, sentTo, started>>

\* for rx in receivers { let msg = rx.recv()?; data[msg.idx] = msg.data; }
Collect ==
    /\ pc = "collect"
    /\ next < Len(receivers)
    /\ LET c == receivers[next + 1]
       IN  /\ chan[c + 1].state = "sent"
           /\ chan' = [chan EXCEPT ![c + 1].state = "taken", ![c + 1].reads = @ + 1]
           /\ IF chan[c + 1].msg.idx < Len(data)
              THEN /\ data' = [data EXCEPT ![chan[c + 1].msg.idx + 1] = chan[c + 1].msg.data]
                   /\ next' = next + 1
                   /\ UNCHANGED <<pc, outcome, sendersAlive>>
              ELSE /\ pc' = "done"
                   /\ outcome' = Outcome("Panic", <<>>, 0, 0)
                   /\ sendersAlive' = FALSE
                   /\ UNCHANGED <<data, next>>
    /\ UNCHANGED <<metricsVars, threadVars, a, b, nthreads, seqres, nspawned, wstate, queue, inprogress,
                   allocated, receivers, i, j, sentTo, started>>

\* mutant of CollectFail: the failed receive is logged and skipped
CollectFail_Skip ==
    /\ pc = "collect"
    /\ next < Len(receivers)
    /\ chan[receivers[next + 1] + 1].state = "dropped"
    /\ next' = next + 1
    /\ UNCHANGED <<metricsVars, threadVars, a, b, nthreads, pc, seqres, outcome, nspawned, sendersAlive, wstate,
                   queue, inprogress, allocated, data, receivers, chan, i, j, sentTo,
                   started>>

\* rx.recv() finds the sender gone: the `?` returns the error
CollectFail ==
    /\ pc = "collect"
    /\ next < Len(receivers)
    /\ chan[receivers[next + 1] + 1].state = "dropped"
    /\ pc' = "done"
    /\ outcome' = Outcome("ErrRecv", <<>>, 0, 0)
    /\ sendersAlive' = FALSE
    /\ UNCHANGED <<metricsVars, threadVars, a, b, nthreads, seqres, nspawned, wstate, queue, inprogress,
                   allocated, data, receivers, chan, i, j, next, sentTo, started>>

\* mutant of ReturnOk: the queue senders outlive the call
ReturnOk_KeepSenders ==
    /\ pc = "collect"
    /\ next = Len(receivers)
    /\ pc' = "done"
    /\ outcome' = Outcome("Ok", data, a.row, b.col)
    /\ UNCHANGED <<metricsVars, threadVars, a, b, nthreads, seqres, nspawned, sendersAlive, wstate, queue,
                   inprogress, allocated, data, receivers, chan, i, j, next, sentTo,
                   started>>

\* Ok(Matrix { data, row: a.row, col: b.col }); the locals, `senders` among them,
\* are dropped
ReturnOk ==
    /\ pc = "collect"
    /\ next = Len(receivers)
    /\ pc' = "done"
    /\ outcome' = Outcome("Ok", data, a.row, b.col)
    /\ sendersAlive' = FALSE
    /\ UNCHANGED <<metricsVars, threadVars, a, b, nthreads, seqres, nspawned, wstate, queue, inprogress,
                   allocated, data, receivers, chan, i, j, next, sentTo, started>>

(* ------------------------------ workers -------------------------------- *)

\* the worker is between two iterations of `for msg in rx`
CanRecv(w) == Idle(w)

\* mutant of QueuePop: the newest message is taken first
QueuePop_Newest(q) == [msg |-> q[Len(q)], rest |-> SubSeq(q, 1, Len(q) - 1)]

\* mutant of QueuePop: the message is read but stays in the queue
QueuePop_Peek(q) == [msg |-> Head(q), rest |-> q]

\* rx yields the oldest message
QueuePop(q) == [msg |-> Head(q), rest |-> Tail(q)]

\* mutant of ReplyIdx: the reply carries the worker's number
ReplyIdx_Worker(msg) == msg.input.idx % nthreads

\* idx of the reply to a message
ReplyIdx(msg) == msg.input.idx

\* `for msg in rx` yields the next message
WorkerRecv(w) ==
    /\ wstate[w] = "running"
    /\ CanRecv(w)
    /\ queue[w] # <<>>
    /\ LET p == QueuePop(queue[w])
       IN  /\ queue' = [queue EXCEPT ![w] = p.rest]
           /\ inprogress' = inprogress \cup {[w |-> w, msg |-> p.msg]}
           /\ started' = [started EXCEPT ![w] = Append(@, p.msg.input.idx)]
    /\ UNCHANGED <<metricsVars, threadVars, a, b, nthreads, pc, seqres, outcome, nspawned, sendersAlive,
                   wstate, allocated, data, receivers, chan, i, j, next, sentTo>>

\* dot_product succeeds and the reply is sent on the task's oneshot sender
WorkerReply(w) ==
    /\ wstate[w] = "running"
    /\ \E t \in inprogress :
         /\ t.w = w
         /\ LET r == dot_product(t.msg.input.row, t.msg.input.col)
                c == t.msg.sender
            IN  /\ r.ok
                /\ chan' = [chan EXCEPT
                      ![c + 1].writes = @ + 1,
                      ![c + 1].writers = @ \cup {w},
                      ![c + 1].state = IF ReceiverDropped(c) THEN "dropped" ELSE "sent",
                      ![c + 1].msg = IF ReceiverDropped(c) THEN @
                                     ELSE MsgOutput(ReplyIdx(t.msg), r.val)]
         /\ inprogress' = inprogress \ {t}
    /\ UNCHANGED <<metricsVars, threadVars, a, b, nthreads, pc, seqres, outcome, nspawned, sendersAlive,
                   wstate, queue, allocated, data, receivers, i, j, next, sentTo,
                   started>>

\* mutant of WorkerFail: the error is logged and the loop goes on
WorkerFail_LogAndContinue(w) ==
    /\ wstate[w] = "running"
    /\ \E t \in inprogress :
         /\ t.w = w
         /\ ~dot_product(t.msg.input.row, t.msg.input.col).ok
         /\ chan' = DropSender(chan, t.msg.sender)
         /\ inprogress' = inprogress \ {t}
    /\ UNCHANGED <<metricsVars, threadVars, a, b, nthreads, pc, seqres, outcome, nspawned, sendersAlive,
                   wstate, queue, allocated, data, receivers, i, j, next, sentTo, started>>

\* mutant of WorkerFail: the thread stops on the error without unwinding, so the
\* message and the queue it holds are never dropped
WorkerFail_Hang(w) ==
    /\ wstate[w] = "running"
    /\ \E t \in inprogress :
         /\ t.w = w
         /\ ~dot_product(t.msg.input.row, t.msg.input.col).ok
         /\ inprogress' = inprogress \ {t}
    /\ wstate' = [wstate EXCEPT ![w] = "failed"]
    /\ queue' = [queue EXCEPT ![w] = <<>>]
    /\ UNCHANGED <<metricsVars, threadVars, a, b, nthreads, pc, seqres, outcome, nspawned, sendersAlive,
                   allocated, data, receivers, chan, i, j, next, sentTo, started>>

\* dot_product fails: the `?` ends the thread, dropping msg and rx
WorkerFail(w) ==
    /\ wstate[w] = "running"
    /\ \E t \in inprogress :
         /\ t.w = w
         /\ ~dot_product(t.msg.input.row, t.msg.input.col).ok
         /\ chan' = DropSenders(DropSender(chan, t.msg.sender), queue[w])
         /\ inprogress' = inprogress \ {t}
    /\ wstate' = [wstate EXCEPT ![w] = "failed"]
    /\ queue' = [queue EXCEPT ![w] = <<>>]
    /\ UNCHANGED <<metricsVars, threadVars, a, b, nthreads, pc, seqres, outcome, nspawned, sendersAlive,
                   allocated, data, receivers, i, j, next, sentTo, started>>

\* mutant of WorkerExit: the loop ends as soon as the queue is found empty
WorkerExit_OnEmpty(w) ==
    /\ wstate[w] = "running"
    /\ Idle(w)
    /\ queue[w] = <<>>
    /\ wstate' = [wstate EXCEPT ![w] = "terminated"]
    /\ UNCHANGED <<metricsVars, threadVars, a, b, nthreads, pc, seqres, outcome, nspawned, sendersAlive,
                   queue, inprogress, allocated, data, receivers, chan, i, j, next,
                   sentTo, started>>

\* every sender of the queue is gone and the queue is empty: the loop ends
WorkerExit(w) ==
    /\ wstate[w] = "running"
    /\ Idle(w)
    /\ queue[w] = <<>>
    /\ ~sendersAlive
    /\ wstate' = [wstate EXCEPT ![w] = "terminated"]
    /\ UNCHANGED <<metricsVars, threadVars, a, b, nthreads, pc, seqres, outcome, nspawned, sendersAlive,
                   queue, inprogress, allocated, data, receivers, chan, i, j, next,
                   sentTo, started>>

(* --------------------- Metrics (mutex_metrics.rs) ---------------------- *)

Clients == 1..MaxClients

\* the keys of the tests
Keys == {"key1", "key2"}

EmptyMap == [k \in {} |-> 0]

NoOp == [op |-> "none", key |-> "key1"]

\* Metrics::new(), before any clone is used
MetricsInit ==
    /\ mdata = EmptyMap
    /\ mlock = 0
    /\ mpc = [t \in Clients |-> "idle"]
    /\ mop = [t \in Clients |-> NoOp]
    /\ mreg = [t \in Clients |-> 0]
    /\ snap = [t \in Clients |-> EmptyMap]
    /\ mcalls = [t \in Clients |-> 0]
    /\ incDone = [k \in Keys |-> 0]
    /\ descDone = [k \in Keys |-> 0]

\* mutant of LockFree: the lock is handed out while it is held
LockFree_Always == TRUE

\* self.data.lock() returns once no other guard is alive
LockFree == mlock = 0

\* data.entry(key).or_insert(0)
OrInsert(m, k) == IF k \in DOMAIN m THEN m ELSE [x \in DOMAIN m \cup {k} |-> IF x = k THEN 0 ELSE m[x]]

\* a thread enters inc, desc or snapshot and takes the lock
MetricsLock(t, op, k) ==
    /\ mpc[t] = "idle"
    /\ mcalls[t] < MaxOps
    /\ LockFree
    /\ mlock' = t
    /\ mpc' = [mpc EXCEPT ![t] = "locked"]
    /\ mop' = [mop EXCEPT ![t] = [op |-> op, key |-> k]]
    /\ mcalls' = [mcalls EXCEPT ![t] = @ + 1]
    /\ UNCHANGED <<matrixVars, threadVars, mdata, mreg, snap, incDone, descDone>>

\* let counter = data.entry(key.into()).or_insert(0), and the read of *counter
MetricsEntry(t) ==
    /\ mpc[t] = "locked"
    /\ mop[t].op \in {"inc", "desc"}
    /\ mdata' = OrInsert(mdata, mop[t].key)
    /\ mreg' = [mreg EXCEPT ![t] = OrInsert(mdata, mop[t].key)[mop[t].key]]
    /\ mpc' = [mpc EXCEPT ![t] = "entry"]
    /\ UNCHANGED <<matrixVars, threadVars, mlock, mop, snap, mcalls, incDone, descDone>>

\* *counter += 1 (inc) or *counter -= 1 (desc); the guard is dropped on return
MetricsStore(t) ==
    /\ mpc[t] = "entry"
    /\ LET k == mop[t].key
           v == IF mop[t].op = "inc" THEN mreg[t] + 1 ELSE mreg[t] - 1
       IN  /\ mdata' = [OrInsert(mdata, k) EXCEPT ![k] = v]
           /\ IF mop[t].op = "inc"
              THEN incDone' = [incDone EXCEPT ![k] = @ + 1] /\ descDone' = descDone
              ELSE descDone' = [descDone EXCEPT ![k] = @ + 1] /\ incDone' = incDone
    /\ mlock' = 0
    /\ mpc' = [mpc EXCEPT ![t] = "idle"]
    /\ mop' = [mop EXCEPT ![t] = NoOp]
    /\ mreg' = [mreg EXCEPT ![t] = 0]
    /\ UNCHANGED <<matrixVars, threadVars, snap, mcalls>>

\* snapshot: data.clone() under the lock
MetricsClone(t) ==
    /\ mpc[t] = "locked"
    /\ mop[t].op = "snapshot"
    /\ snap' = [snap EXCEPT ![t] = mdata]
    /\ mpc' = [mpc EXCEPT ![t] = "cloned"]
    /\ UNCHANGED <<matrixVars, threadVars, mdata, mlock, mop, mreg, mcalls, incDone, descDone>>

\* snapshot returns Ok(clone) and the guard is dropped; the caller uses the map
\* and lets it go
MetricsReturnSnapshot(t) ==
    /\ mpc[t] = "cloned"
    /\ mlock' = 0
    /\ mpc' = [mpc EXCEPT ![t] = "idle"]
    /\ mop' = [mop EXCEPT ![t] = NoOp]
    /\ snap' = [snap EXCEPT ![t] = EmptyMap]
    /\ UNCHANGED <<matrixVars, threadVars, mdata, mreg, mcalls, incDone, descDone>>

\* the matrix program before any call, with the smallest inputs
MatrixIdle ==
    /\ a = Matrix_new(<<>>, 0, 0)
    /\ b = Matrix_new(<<>>, 0, 0)
    /\ nthreads = NUM_THREADS
    /\ pc = "multiply"
    /\ seqres = NoOutcome
    /\ outcome = NoOutcome
    /\ nspawned = 0
    /\ sendersAlive = FALSE
    /\ wstate = [w \in WorkerSlots |-> "none"]
    /\ queue = [w \in WorkerSlots |-> <<>>]
    /\ inprogress = {}
    /\ allocated = FALSE
    /\ data = <<>>
    /\ receivers = <<>>
    /\ chan = <<>>
    /\ i = 0
    /\ j = 0
    /\ next = 0
    /\ sentTo = [w \in WorkerSlots |-> <<>>]
    /\ started = [w \in WorkerSlots |-> <<>>]

MetricsNext ==
    \/ \E t \in Clients, k \in Keys : MetricsLock(t, "inc", k)
    \/ \E t \in Clients, k \in Keys : MetricsLock(t, "desc", k)
    \/ \E t \in Clients : MetricsLock(t, "snapshot", "key1")
    \/ \E t \in Clients : MetricsEntry(t)
    \/ \E t \in Clients : MetricsStore(t)
    \/ \E t \in Clients : MetricsClone(t)
    \/ \E t \in Clients : MetricsReturnSnapshot(t)

(* ---------------- producers and consumer (thread1.rs) ------------------ *)

Producers == 0..(NUM_PRODUCES - 1)

\* what rand::random::<usize>() returns
Values == {0, 1}

\* Msg::new(idx, value) of the example
ThreadMsg_new(idx, value) == [idx |-> idx, value |-> value]

\* let (tx, rx) = mpsc::channel()
ThreadInit ==
    /\ mainpc = "spawn"
    /\ tx = TRUE
    /\ rx = <<>>
    /\ nproducers = 0
    /\ producer = [p \in Producers |-> "none"]
    /\ consumer = "none"
    /\ sent = [p \in Producers |-> <<>>]
    /\ received = [p \in Producers |-> <<>>]

\* a Sender of the channel is alive: main's, or the clone of a running producer
SenderAlive == tx \/ \E p \in Producers : producer[p] = "running"

\* the Receiver is alive: in main, then in the consumer until it leaves
ReceiverAlive == consumer # "left"

TotalSent == Len(sent[0]) + Len(sent[1]) + Len(sent[2]) + Len(sent[3])

\* let tx = tx.clone(); thread::spawn(move || produce(i, tx))
MainSpawnProducer ==
    /\ mainpc = "spawn"
    /\ nproducers < NUM_PRODUCES
    /\ producer' = [producer EXCEPT ![nproducers] = "running"]
    /\ nproducers' = nproducers + 1
    /\ UNCHANGED <<matrixVars, metricsVars, mainpc, tx, rx, consumer, sent, received>>

\* drop(tx)
MainDropTx ==
    /\ mainpc = "spawn"
    /\ nproducers = NUM_PRODUCES
    /\ tx' = FALSE
    /\ mainpc' = "consumer"
    /\ UNCHANGED <<matrixVars, metricsVars, rx, nproducers, producer, consumer, sent, received>>

\* let consumer = thread::spawn(move || { for msg in rx { .. } })
MainSpawnConsumer ==
    /\ mainpc = "consumer"
    /\ consumer' = "running"
    /\ mainpc' = "join"
    /\ UNCHANGED <<matrixVars, metricsVars, tx, rx, nproducers, producer, sent, received>>

\* consumer.join()?; Ok(())
MainJoin ==
    /\ mainpc = "join"
    /\ consumer = "left"
    /\ mainpc' = "done"
    /\ UNCHANGED <<matrixVars, metricsVars, tx, rx, nproducers, producer, consumer, sent,
                   received>>

\* one round of the loop up to its test: tx.send(Msg::new(idx, value))? and the
\* sleep; the `?` ends the producer when the Receiver is gone
ProducerSend(p, value) ==
    /\ producer[p] = "running"
    /\ TotalSent < MaxMsgs
    /\ IF ReceiverAlive
       THEN /\ rx' = Append(rx, ThreadMsg_new(p, value))
            /\ sent' = [sent EXCEPT ![p] = Append(@, value)]
            /\ UNCHANGED producer
       ELSE /\ producer' = [producer EXCEPT ![p] = "left"]
            /\ UNCHANGED <<rx, sent>>
    /\ UNCHANGED <<matrixVars, metricsVars, mainpc, tx, nproducers, consumer, received>>

\* the test that follows a send, rand::random::<u8>() % 10 == 0, succeeds: break,
\* and the clone of tx is dropped (when it fails the loop goes round to the send)
ProducerLeave(p) ==
    /\ producer[p] = "running"
    /\ sent[p] # <<>>
    /\ producer' = [producer EXCEPT ![p] = "left"]
    /\ UNCHANGED <<matrixVars, metricsVars, mainpc, tx, rx, nproducers, consumer, sent,
                   received>>

\* `for msg in rx` yields the oldest message, which is printed
ConsumerRecv ==
    /\ consumer = "running"
    /\ rx # <<>>
    /\ LET m == QueuePop(rx)
       IN  /\ rx' = m.rest
           /\ received' = [received EXCEPT ![m.msg.idx] = Append(@, m.msg.value)]
    /\ UNCHANGED <<matrixVars, metricsVars, mainpc, tx, nproducers, producer, consumer, sent>>

\* mutant of ConsumerLeave: the loop ends as soon as the channel is found empty
ConsumerLeave_OnEmpty ==
    /\ consumer = "running"
    /\ rx = <<>>
    /\ consumer' = "left"
    /\ UNCHANGED <<matrixVars, metricsVars, mainpc, tx, rx, nproducers, producer, sent,
                   received>>

\* the channel is empty and every Sender is gone: the loop ends
ConsumerLeave ==
    /\ consumer = "running"
    /\ rx = <<>>
    /\ ~SenderAlive
    /\ consumer' = "left"
    /\ UNCHANGED <<matrixVars, metricsVars, mainpc, tx, rx, nproducers, producer, sent,
                   received>>

MainStep == MainSpawnProducer \/ MainDropTx \/ MainSpawnConsumer \/ MainJoin

ConsumerStep == ConsumerRecv \/ ConsumerLeave

ThreadNext ==
    \/ MainSpawnProducer
    \/ MainDropTx
    \/ MainSpawnConsumer
    \/ MainJoin
    \/ \E p \in Producers, value \in Values : ProducerSend(p, value)
    \/ \E p \in Producers : ProducerLeave(p)
    \/ ConsumerRecv
    \/ ConsumerLeave

\* the threads sharing one Metrics value
MetricsSpecInit == MatrixIdle /\ MetricsInit /\ ThreadInit

MetricsSpec == MetricsSpecInit /\ [][MetricsNext]_vars

\* the producer/consumer example
ThreadSpecInit == MatrixIdle /\ MetricsInit /\ ThreadInit

\* main and the consumer are scheduled whenever they can run; nothing is assumed
\* of the producers, which leave by chance
ThreadSpec ==
    /\ ThreadSpecInit
    /\ [][ThreadNext]_vars
    /\ WF_vars(MainStep)
    /\ WF_vars(ConsumerStep)

(* ------------------------ the matrix program --------------------------- *)

Init == MatrixInit(FillKinds) /\ MetricsInit /\ ThreadInit

Next ==
    \/ CallMultiply
    \/ CheckDimensions
    \/ SpawnWorker
    \/ Allocate
    \/ Dispatch
    \/ DispatchPanic
    \/ DispatchDone
    \/ Collect
    \/ CollectFail
    \/ ReturnOk
    \/ \E w \in Workers : WorkerRecv(w)
    \/ \E w \in Workers : WorkerReply(w)
    \/ \E w \in Workers : WorkerFail(w)
    \/ \E w \in Workers : WorkerExit(w)

Spec == Init /\ [][Next]_vars

\* the steps of the calling thread, and of worker w
CallerStep ==
    \/ CallMultiply \/ CheckDimensions \/ SpawnWorker \/ Allocate \/ Dispatch
    \/ DispatchPanic \/ DispatchDone \/ Collect \/ CollectFail \/ ReturnOk

WorkerStep(w) ==
    /\ w \in Workers
    /\ (WorkerRecv(w) \/ WorkerReply(w) \/ WorkerFail(w) \/ WorkerExit(w))

\* Every thread that can take a step is eventually scheduled.  The schedule does
\* not depend on the values in the matrices: one fill is enough here.
FairInit == MatrixInit({"iota"}) /\ MetricsInit /\ ThreadInit

FairSpec ==
    /\ FairInit
    /\ [][Next]_vars
    /\ WF_vars(CallerStep)
    /\ \A w \in WorkerSlots : WF_vars(WorkerStep(w))

(* ------------------------------ claims --------------------------------- *)

Returned == pc = "done"

\* the invariant of a Matrix: data.len() = row * col
WellFormed(m) == Len(m.data) = m.row * m.col

BothWellFormed == WellFormed(a) /\ WellFormed(b) /\ a.col = b.row

Channels == 0..(Len(chan) - 1)

SomeWorkerFailed == \E w \in Workers : wstate[w] = "failed"

\* C1: for well-formed A (m x k) and B (k x n), under every interleaving of the
\* workers, multiply_concurrency returns Ok with the rows, cols and data of the
\* sequential multiply(A, B).
C1_ConcurrentEqualsSequential ==
    (Returned /\ BothWellFormed) =>
        /\ seqres.status = "Ok"
        /\ outcome.status = "Ok"
        /\ outcome.row = seqres.row
        /\ outcome.col = seqres.col
        /\ outcome.data = seqres.data

C1_Witness ==
    /\ Returned /\ BothWellFormed
    /\ nthreads = NUM_THREADS
    /\ a.row = 2 /\ a.col = 2 /\ b.col = 2
    /\ outcome.status = "Ok"
    /\ outcome.data = <<7, 10, 15, 22>>

\* C2: when a worker has ended abnormally without replying to a task assigned to
\* it, multiply_concurrency never returns Ok, and when it returns (it does unless
\* the dispatcher itself unwinds from a slice out of range) it returns the error
\* of the failed receive; it never returns Ok while the reply of a dispatched
\* task has not been received, so no cell of an Ok matrix is an unanswered zero.
C2_WorkerFailureIsAnError ==
    /\ SomeWorkerFailed => outcome.status # "Ok"
    /\ (Returned /\ SomeWorkerFailed /\ outcome.status # "Panic") =>
            outcome.status = "ErrRecv"
    /\ outcome.status = "Ok" =>
            \A c \in Channels : chan[c + 1].state = "taken" /\ chan[c + 1].writes = 1

C2_Witness ==
    /\ Returned
    /\ SomeWorkerFailed
    /\ outcome.status = "ErrRecv"
    /\ next >= 1
    /\ \E c \in Channels : chan[c + 1].state = "dropped" /\ chan[c + 1].queuedAt = -1

\* C3: when a.col # b.row both multiplies return the dimension error, and
\* multiply_concurrency has then started no worker, dispatched no task and
\* created no reply channel and no output buffer.
C3_MismatchFailsFast ==
    a.col # b.row =>
        /\ nspawned = 0
        /\ \A w \in Workers : wstate[w] = "none" /\ queue[w] = <<>>
        /\ chan = <<>> /\ receivers = <<>>
        /\ ~allocated /\ data = <<>>
        /\ pc # "multiply" => seqres.status = "ErrDim"
        /\ Returned => outcome.status = "ErrDim"

C3_Witness ==
    /\ Returned
    /\ a.col # b.row
    /\ outcome.status = "ErrDim" /\ seqres.status = "ErrDim"
    /\ a.row > 0 /\ b.col > 0

\* the product of two well-formed matrices, by the textbook formula
RECURSIVE SumTo(_, _, _, _)
SumTo(ma, mb, idx, t) ==
    IF t = 0 THEN 0
    ELSE SumTo(ma, mb, idx, t - 1)
         + ma.data[(idx \div mb.col) * ma.col + t] * mb.data[(t - 1) * mb.col + (idx % mb.col) + 1]

Product(ma, mb) == [p \in 1..(ma.row * mb.col) |-> SumTo(ma, mb, p - 1, ma.col)]

\* with an empty inner dimension b.data is empty, and b.data[j..] is out of range
\* from j = 1 on
EmptyInnerPanics(ma, mb) == ma.row > 0 /\ ma.col = 0 /\ mb.col > 1

\* C4: for well-formed inputs what the call returns is determined by A and B
\* alone: every pool size (1, 2, NUM_THREADS, also a pool larger than the number
\* of cells) returns the same matrix under every interleaving.
C4_ResultIndependentOfWorkerCount ==
    (Returned /\ BothWellFormed) =>
        \A n \in WorkerCounts :
            nthreads = n =>
                outcome = IF EmptyInnerPanics(a, b)
                          THEN Outcome("Panic", <<>>, 0, 0)
                          ELSE Outcome("Ok", Product(a, b), a.row, b.col)

C4_Witness ==
    /\ Returned /\ BothWellFormed
    /\ outcome.status = "Ok"
    /\ nthreads = 1
    /\ DataLength(a, b) >= 4
    /\ \E p, q \in 1..Len(outcome.data) : outcome.data[p] # outcome.data[q]

C4_WitnessLargePool ==
    /\ Returned /\ BothWellFormed
    /\ outcome.status = "Ok"
    /\ nthreads > DataLength(a, b)
    /\ DataLength(a, b) >= 2

\* C5: every reply channel is written at most once, only by the worker whose
\* queue accepted its task, and read at most once by the collector; when the call
\* returns Ok each one has been written exactly once and read exactly once.
C5_ReplyChannelOneShot ==
    \A c \in Channels :
        /\ chan[c + 1].writes <= 1
        /\ chan[c + 1].reads <= 1
        /\ chan[c + 1].writers \subseteq {chan[c + 1].queuedAt}
        /\ chan[c + 1].reads = 1 => chan[c + 1].writes = 1
        /\ outcome.status = "Ok" => chan[c + 1].writes = 1 /\ chan[c + 1].reads = 1

C5_Witness ==
    /\ outcome.status = "Ok"
    /\ Len(chan) = MaxCells
    /\ nthreads = NUM_THREADS
    /\ \A c \in Channels : chan[c + 1].writers = {c % NUM_THREADS}

IsPrefix(s, t) == Len(s) <= Len(t) /\ SubSeq(t, 1, Len(s)) = s

\* C6: a worker is inside the body of its loop for at most one task at a time,
\* and it takes the tasks of its queue in the order they were sent; tasks in
\* progress at the same time are on different workers.
C6_OneTaskPerWorkerFifo ==
    /\ \A t1, t2 \in inprogress : t1.w = t2.w => t1 = t2
    /\ \A w \in Workers :
          /\ IsPrefix(started[w], sentTo[w])
          /\ Len(started[w]) + Len(queue[w]) <= Len(sentTo[w])

C6_Witness ==
    /\ Cardinality(inprogress) >= 2
    /\ \E t \in inprogress : Len(started[t.w]) = 2 /\ queue[t.w] # <<>>

\* C7: under fair scheduling every worker that was started ends: once the queue
\* senders are dropped it takes what is left in its queue and leaves its loop,
\* and a worker that left its loop normally has processed every task sent to it.
WorkerEnded(w) ==
    /\ wstate[w] \in {"terminated", "failed"}
    /\ queue[w] = <<>>
    /\ Idle(w)
    /\ wstate[w] = "terminated" => started[w] = sentTo[w]

C7_WorkersTerminate ==
    <>[](/\ ~sendersAlive
         /\ \A w \in WorkerSlots : w < nspawned => WorkerEnded(w))

C7_Witness ==
    /\ outcome.status = "Ok"
    /\ nthreads = NUM_THREADS
    /\ Len(chan) = MaxCells
    /\ \A w \in Workers : wstate[w] = "terminated" /\ started[w] = sentTo[w]

IsIdentity(m) ==
    /\ m.row = m.col
    /\ WellFormed(m)
    /\ \A r, c \in 0..(m.row - 1) : m.data[r * m.col + c + 1] = IF r = c THEN 1 ELSE 0

SameMatrix(res, m) ==
    res.status = "Ok" /\ res.row = m.row /\ res.col = m.col /\ res.data = m.data

\* C8: multiplying a well-formed A by the identity on the right, or B by the
\* identity on the left, returns that matrix from multiply and from
\* multiply_concurrency.
C8_IdentityIsNeutral ==
    Returned =>
        /\ (WellFormed(a) /\ IsIdentity(b) /\ a.col = b.row) =>
                SameMatrix(seqres, a) /\ SameMatrix(outcome, a)
        /\ (IsIdentity(a) /\ WellFormed(b) /\ a.col = b.row) =>
                SameMatrix(seqres, b) /\ SameMatrix(outcome, b)

C8_Witness ==
    /\ Returned
    /\ WellFormed(a) /\ IsIdentity(b) /\ a.col = b.row
    /\ a.row = 2 /\ a.col = 2
    /\ ~IsIdentity(a)
    /\ SameMatrix(outcome, a)

C8_WitnessLeft ==
    /\ Returned
    /\ IsIdentity(a) /\ WellFormed(b) /\ a.col = b.row
    /\ b.row = 2 /\ b.col = 2
    /\ ~IsIdentity(b)
    /\ SameMatrix(outcome, b)

ShapeOk(res) ==
    res.status = "Ok" =>
        res.row = a.row /\ res.col = b.col /\ Len(res.data) = a.row * b.col

\* C9: every matrix returned as Ok by either multiply has row = a.row,
\* col = b.col and a.row * b.col elements.
C9_ResultShape == ShapeOk(seqres) /\ ShapeOk(outcome)

C9_Witness ==
    /\ outcome.status = "Ok" /\ seqres.status = "Ok"
    /\ a.row # a.col /\ a.row # b.col
    /\ Len(outcome.data) >= 2
    /\ ~WellFormed(a)

\* what completed inc and desc calls amount to: a key is present once a call
\* on it has returned, with value (inc calls) - (desc calls)
Expected ==
    [k \in {x \in Keys : incDone[x] + descDone[x] > 0} |-> incDone[k] - descDone[k]]

\* C10: whatever the interleaving of the threads sharing the Metrics value, the
\* map holds for every key (inc calls returned) - (desc calls returned) whenever
\* no call is inside the lock, a snapshot returns exactly that map, and a key no
\* call touched is absent from it.
C10_MetricsCountsExact ==
    /\ mlock = 0 => mdata = Expected
    /\ \A t \in Clients : mpc[t] = "cloned" =>
          /\ snap[t] = Expected
          /\ \A k \in Keys : incDone[k] + descDone[k] = 0 => k \notin DOMAIN snap[t]

C10_Witness ==
    /\ \E t \in Clients : mpc[t] = "cloned" /\ snap[t] = ("key1" :> 0)
    /\ incDone["key1"] = 1 /\ descDone["key1"] = 1
    /\ \E t1, t2 \in Clients : t1 # t2 /\ mcalls[t1] > 0 /\ mcalls[t2] > 0

\* the messages waiting in a queue or held by a worker
Travelling ==
    {t.msg : t \in inprogress} \cup
    UNION {{queue[w][p] : p \in 1..Len(queue[w])} : w \in WorkerSlots}

\* C11: in every state the k-th receiver of the pending-receivers sequence is the
\* receiving end of the channel created for the task with idx = k, the sender of
\* that channel travels with that task, a reply found in it carries idx = k, and
\* what the collector has read from it is what it wrote to data[k].
C11_ReceiverKBelongsToTaskK ==
    /\ \A k \in 0..(Len(receivers) - 1) :
          LET ch == chan[receivers[k + 1] + 1]
          IN  /\ ch.task.idx = k
              /\ ch.state \in {"sent", "taken"} => ch.msg.idx = k
              /\ (ch.state = "taken" /\ pc = "collect") =>
                     k < Len(data) /\ data[k + 1] = ch.msg.data
    /\ \A m \in Travelling :
          /\ m.sender \in Channels
          /\ chan[m.sender + 1].task = m.input
          /\ \E k \in 0..(Len(receivers) - 1) : receivers[k + 1] = m.sender /\ m.input.idx = k

C11_Witness ==
    /\ pc = "collect"
    /\ next >= 2
    /\ Len(receivers) >= 4
    /\ b.col >= 2 /\ a.row >= 2
    /\ chan[receivers[next + 1] + 1].state = "sent"
    /\ Travelling # {}

\* the flat indexes below n that are congruent to w modulo the pool size, ascending
IdxsOf(w, n) == SelectSeq([k \in 1..n |-> k - 1], LAMBDA x : x % nthreads = w)

\* C12: every task with flat index idx that a queue accepted was accepted by the
\* queue of worker idx mod N and by no other: what has been sent to worker w is
\* the ascending run of the indexes congruent to w (all those dispatched so far
\* while w is running, an initial part of them once w has failed and refuses),
\* and a task waits or is computed only at worker idx mod N.
C12_TaskGoesToWorkerIdxModN ==
    /\ \A w \in WorkerSlots :
          /\ IsPrefix(sentTo[w], IdxsOf(w, Len(chan)))
          /\ wstate[w] \in {"running", "terminated"} => sentTo[w] = IdxsOf(w, Len(chan))
          /\ \A p \in 1..Len(queue[w]) : queue[w][p].input.idx % nthreads = w
    /\ \A t \in inprogress : t.msg.input.idx % nthreads = t.w
    /\ \A c \in Channels :
          chan[c + 1].queuedAt \in {-1, chan[c + 1].task.idx % nthreads}

C12_Witness ==
    /\ nthreads = NUM_THREADS
    /\ sentTo[0] = <<0, 4>>
    /\ sentTo[1] = <<1>> /\ sentTo[3] = <<3>>
    /\ Len(queue[0]) >= 1

C12_WitnessSmallPool ==
    /\ nthreads = 2
    /\ sentTo[0] = <<0, 2, 4>>
    /\ sentTo[1] = <<1, 3>>

\* row i of A and column j of B, read element by element
ExpectedRow(r) == [t \in 1..a.col |-> a.data[r * a.col + t]]

ExpectedCol(k) == [t \in 1..b.row |-> b.data[(t - 1) * b.col + k + 1]]

\* the tasks created so far: task number c has idx = c and carries row c \div b.col
\* of A and column c % b.col of B, both of length a.col
TasksAreRowsAndColumns ==
    \A c \in Channels :
        LET input == chan[c + 1].task
        IN  /\ input.idx = c
            /\ input.row = ExpectedRow(c \div b.col)
            /\ input.col = ExpectedCol(c % b.col)
            /\ Len(input.row) = a.col /\ Len(input.col) = a.col

\* the dispatch loops are over
DispatchOver == allocated /\ pc \in {"collect", "done"}

\* C13: for well-formed A and B the dispatcher creates exactly one task for each
\* flat index idx in 0 .. a.row * b.col - 1, in increasing idx order, and the task
\* for idx = i * b.col + j carries a copy of row i of A and of column j of B, both
\* of length a.col.
C13_OneTaskPerCell ==
    BothWellFormed =>
        /\ TasksAreRowsAndColumns
        /\ DispatchOver => Len(chan) = a.row * b.col

\* C13 on the inputs that do not reach the empty-inner panic of C1
C13_OneTaskPerCellNonEmptyInner ==
    (BothWellFormed /\ ~EmptyInnerPanics(a, b)) =>
        /\ TasksAreRowsAndColumns
        /\ DispatchOver => Len(chan) = a.row * b.col

C13_Witness ==
    /\ BothWellFormed
    /\ DispatchOver
    /\ a.row = 2 /\ a.col = 2 /\ b.col = 2
    /\ Len(chan) = 4
    /\ chan[4].task = MsgInput_new(3, <<3, 4>>, <<2, 4>>)

\* the receiver the collector is blocked on or about to read
Current == chan[receivers[next + 1] + 1]

\* C14: the collector writes the output cells strictly in increasing flat-index
\* order: the replies read are always those of cells 0 .. next - 1, a step of the
\* collector reads the reply of cell next and writes that cell only, and while
\* the reply of cell next is not yet there the collector does not move, also
\* when replies of later cells are there.
C14_CollectsInIndexOrder ==
    /\ [](\A k \in 0..(Len(receivers) - 1) :
              chan[receivers[k + 1] + 1].state = "taken" <=> (pc \in {"collect", "done"} /\ k < next))
    /\ [][pc = "collect" =>
            /\ next' \in {next, next + 1}
            /\ next' = next + 1 =>
                  /\ next < Len(receivers)
                  /\ Current.state = "sent"
                  /\ data' = [data EXCEPT ![next + 1] = Current.msg.data]
            /\ next' = next => data' = data
            /\ (next < Len(receivers) /\ Current.state = "open") =>
                  next' = next /\ data' = data /\ pc' = pc /\ outcome' = outcome]_vars

C14_Witness ==
    /\ pc = "collect"
    /\ next = 1
    /\ Len(receivers) >= 4
    /\ Current.state = "open"
    /\ chan[receivers[3] + 1].state = "sent"
    /\ chan[receivers[4] + 1].state = "sent"
    /\ data[2] = 0 /\ data[3] = 0

\* the channels of the tasks whose send to a worker's queue failed
Lost == {c \in Channels : chan[c + 1].queuedAt = -1}

SendFailed == Lost # {}

\* C15 as stated: a call in which the send of a task to a worker's queue failed
\* completes with Ok, the cell of the lost task left at zero.
C15_LostCellIsZeroInOk ==
    (Returned /\ SendFailed /\ outcome.status # "Panic") =>
        /\ outcome.status = "Ok"
        /\ \A c \in Lost : outcome.data[chan[c + 1].task.idx + 1] = 0

\* C15 (amended): when the send of a task to a worker's queue fails the task and
\* its reply sender are dropped, the reply receiver is still pushed and dispatch
\* goes on to the remaining cells; the call then never returns Ok: when it
\* returns it returns the error of a failed receive.
C15_SendFailureIsAnError ==
    /\ SendFailed => outcome.status # "Ok"
    /\ (Returned /\ SendFailed /\ outcome.status # "Panic") => outcome.status = "ErrRecv"
    /\ \A c \in Lost :
          /\ chan[c + 1].state = "dropped"
          /\ chan[c + 1].writes = 0
          /\ \E k \in 0..(Len(receivers) - 1) : receivers[k + 1] = c
    /\ (SendFailed /\ pc = "collect") => Len(receivers) = a.row * b.col

C15_Witness ==
    /\ Returned
    /\ outcome.status = "ErrRecv"
    /\ \E c \in Lost :
          /\ c + 1 < Len(receivers)
          /\ \E d \in Channels : d > c /\ chan[d + 1].queuedAt >= 0
    /\ Len(receivers) = a.row * b.col

\* dot_product returns the error for the task of flat index idx
DotFails(idx) ==
    ~dot_product(chan[idx + 1].task.row, chan[idx + 1].task.col).ok

\* the worker has been through a task whose dot_product returned the error
PastDotError(w) ==
    /\ Idle(w)
    /\ \E p \in 1..Len(started[w]) : DotFails(started[w][p])

\* C16 as stated: after the dot product of a task returned an error the worker
\* is still in its loop, ready for the later tasks of its queue.
C16_WorkerSurvivesDotError ==
    \A w \in Workers : (PastDotError(w) /\ sendersAlive) => wstate[w] = "running"

\* C16 (amended): when the dot product of a task returns an error the worker
\* thread ends at once: it sends no reply for that task, takes no later task, and
\* the tasks still in its queue are dropped unprocessed with their reply senders.
C16_DotErrorEndsWorker ==
    \A w \in WorkerSlots :
        /\ \A p \in 1..Len(started[w]) :
              DotFails(started[w][p]) =>
                  /\ p = Len(started[w])
                  /\ chan[started[w][p] + 1].writes = 0
                  /\ Idle(w) => /\ wstate[w] = "failed"
                                /\ queue[w] = <<>>
                                /\ chan[started[w][p] + 1].state = "dropped"
        /\ wstate[w] = "failed" =>
              /\ PastDotError(w)
              /\ \A p \in 1..Len(sentTo[w]) :
                    p > Len(started[w]) =>
                        /\ chan[sentTo[w][p] + 1].state = "dropped"
                        /\ chan[sentTo[w][p] + 1].writes = 0

C16_Witness ==
    /\ sendersAlive
    /\ \E w \in Workers :
          /\ wstate[w] = "failed"
          /\ Len(started[w]) = 2
          /\ Len(sentTo[w]) > Len(started[w])
          /\ chan[started[w][1] + 1].writes = 1

\* C17 as stated: a worker leaves the running state only from Idle, with its
\* queue empty and every sender to its queue dropped.
C17_EndsOnlyIdleClosedEmpty ==
    [][\A w \in WorkerSlots :
          (wstate[w] = "running" /\ wstate'[w] # "running") =>
              Idle(w) /\ queue[w] = <<>> /\ ~sendersAlive]_vars

\* C17 (amended): a worker goes Idle -> Computing by taking the oldest task of
\* its queue and Computing -> Idle by replying; it leaves its loop normally only
\* from Idle with its queue empty and every sender dropped, having taken every
\* task sent to it; its one other end is from Computing, when dot_product returns
\* the error, whatever is queued and whether or not senders are alive; an ended
\* worker stays ended.
C17_WorkerStateMachine ==
    [][\A w \in WorkerSlots :
          /\ (wstate[w] = "running" /\ wstate'[w] = "terminated") =>
                Idle(w) /\ queue[w] = <<>> /\ ~sendersAlive /\ started[w] = sentTo[w]
          /\ (wstate[w] = "running" /\ wstate'[w] = "failed") =>
                /\ \E t \in inprogress :
                      t.w = w /\ ~dot_product(t.msg.input.row, t.msg.input.col).ok
                /\ Idle(w)'
          /\ wstate[w] \in {"terminated", "failed"} => wstate'[w] = wstate[w]
          /\ wstate[w] = "none" => wstate'[w] \in {"none", "running"}
          /\ (Idle(w) /\ ~Idle(w)') =>
                /\ wstate[w] = "running" /\ wstate'[w] = "running"
                /\ queue[w] # <<>>
                /\ queue'[w] = Tail(queue[w])
                /\ [w |-> w, msg |-> Head(queue[w])] \in inprogress'
          /\ (~Idle(w) /\ Idle(w)') =>
                /\ wstate[w] = "running"
                /\ queue'[w] = queue[w] \/ wstate'[w] = "failed"
          /\ wstate[w] # "running" => Idle(w) /\ queue[w] = <<>>]_vars

C17_Witness ==
    /\ \E w \in Workers : wstate[w] = "terminated" /\ Len(started[w]) >= 2
    /\ \E w \in Workers : wstate[w] = "failed" /\ Len(sentTo[w]) > Len(started[w])

\* the parties holding the task (and with it the reply sender) of channel c: the
\* queue slots and the computing workers
Holders(c) ==
    {h \in WorkerSlots \X (1..(MaxCells + 1)) :
        h[2] <= Len(queue[h[1]]) /\ queue[h[1]][h[2]].sender = c}

Computing(c) == {t \in inprogress : t.msg.sender = c}

\* C18: no step changes A or B, and every value that crosses threads has one
\* owner at a time: a task whose reply is still to come is in exactly one place
\* (one slot of one queue, or one computing worker), and once its reply is in the
\* channel, read by the collector or dropped, no queue and no worker holds the
\* task any more; the collector reads only what a worker has sent.
C18_InputsUntouchedSingleOwner ==
    /\ [][a' = a /\ b' = b]_vars
    /\ [](\A c \in Channels :
            /\ Cardinality(Holders(c)) + Cardinality(Computing(c)) =
                   (IF chan[c + 1].state = "open" THEN 1 ELSE 0)
            /\ chan[c + 1].reads <= chan[c + 1].writes
            /\ chan[c + 1].state = "taken" => chan[c + 1].reads = 1)

C18_Witness ==
    /\ pc = "collect"
    /\ a.data # <<>> /\ b.data # <<>>
    /\ \E c1, c2, c3, c4 \in Channels :
          /\ chan[c1 + 1].state = "taken"
          /\ chan[c2 + 1].state = "sent"
          /\ Computing(c3) # {}
          /\ Holders(c4) # {}

\* the collector is blocked in recv on the reply of cell next
CollectorWaits == pc = "collect" /\ next < Len(receivers) /\ Current.state = "open"

\* the call has ended and no reply channel is left with a live sender and nothing
\* sent
CallOver ==
    /\ Returned
    /\ outcome.status # "none"
    /\ \A c \in Channels : chan[c + 1].state # "open"

\* C19: under fair scheduling every call of multiply_concurrency ends, also when
\* workers die (it returns Ok or the error, or unwinds from the dispatcher's
\* slice panic): while the collector waits on a reply, the task of that reply is
\* queued at or being computed by a worker that is still running, so the reply is
\* sent or its sender is dropped, and the collector never waits forever; in the
\* end no reply channel is left with a live sender and nothing sent.
C19_CallEnds ==
    /\ [](CollectorWaits =>
             \E w \in Workers :
                 /\ wstate[w] = "running"
                 /\ \/ \E p \in 1..Len(queue[w]) : queue[w][p].sender = receivers[next + 1]
                    \/ \E t \in inprogress : t.w = w /\ t.msg.sender = receivers[next + 1])
    /\ <>[]CallOver

C19_Witness ==
    /\ Returned
    /\ outcome.status = "ErrRecv"
    /\ next >= 1
    /\ \E c \in Channels :
          /\ chan[c + 1].queuedAt >= 0
          /\ chan[c + 1].state = "dropped"
          /\ \A p \in 1..Len(started[chan[c + 1].queuedAt]) :
                started[chan[c + 1].queuedAt][p] # c
    /\ SendFailed

\* the values of producer p still in the channel, oldest first
Pending(p) ==
    LET own == SelectSeq(rx, LAMBDA m : m.idx = p)
    IN  [k \in 1..Len(own) |-> own[k].value]

AllProducersLeft == \A p \in Producers : producer[p] = "left"

\* C20: in the producer/consumer example what the consumer has received from a
\* producer, followed by what of that producer is still in the channel, is what
\* the producer sent, in the order it was sent; the consumer leaves its loop only
\* when all four producers have exited and main's original sender is dropped,
\* and it has then received every message sent; main returns only after the
\* consumer left; and once all producers have left, the consumer eventually
\* leaves and main returns.
C20_ConsumerGetsAllInOrder ==
    /\ [](/\ \A p \in Producers : received[p] \o Pending(p) = sent[p]
          /\ consumer = "left" =>
                /\ AllProducersLeft
                /\ ~tx
                /\ nproducers = NUM_PRODUCES
                /\ \A p \in Producers : received[p] = sent[p]
          /\ mainpc = "done" => consumer = "left")
    /\ (AllProducersLeft ~> (consumer = "left" /\ mainpc = "done"))

C20_Witness ==
    /\ mainpc = "done"
    /\ consumer = "left"
    /\ AllProducersLeft
    /\ received = sent
    /\ sent[0] = <<0>> /\ sent[1] = <<1>> /\ sent[2] = <<1>> /\ sent[3] = <<0>>

\* two messages of one producer received in the order sent, messages of other
\* producers in between
C20_WitnessOrder ==
    /\ consumer = "running"
    /\ \E p \in Producers : sent[p] = <<0, 1>> /\ received[p] = <<0, 1>>
    /\ \E p \in Producers : received[p] = <<1>> /\ producer[p] = "left"
    /\ \E p \in Producers : producer[p] = "running" /\ Pending(p) # <<>>

====
